---- MODULE Spec2Model ----
(***************************************************************************)
(* Model of sourcebit-target-next (src/index.js): the reduction of content *)
(* records into a {props, pages} snapshot, the cache file shared by the    *)
(* producer (bootstrap / transform) and the consumer (SourcebitDataClient),*)
(* and the websocket live-update channel.                                  *)
(*                                                                         *)
(* JavaScript values are tagged records, so that values of different       *)
(* JavaScript types can be compared:                                       *)
(*   [t |-> "undef"]            undefined                                  *)
(*   [t |-> "str", v |-> seq]   a string, as the sequence of its characters*)
(*   [t |-> "num", v |-> n]     a number                                   *)
(*   [t |-> "bool", v |-> b]    a boolean                                  *)
(*   [t |-> "obj", v |-> f]     an object; DOMAIN f is the set of own keys *)
(*   [t |-> "arr", v |-> seq]   an array                                   *)
(***************************************************************************)
EXTENDS Integers, Sequences, FiniteSets

VARIABLES
    mode,            \* which entry point of the module the behaviour exercises
    pathTemplate,    \* interpolatePagePath: argument pathTemplate
    page,            \* interpolatePagePath: argument page
    urlPath,         \* interpolatePagePath: outcome (returned path or thrown)
    options,         \* the plugin options (commonProps, pages, ...)
    objects,         \* data.objects, the content records handed to transform
    transformedData, \* reduceAndTransformData: outcome (snapshot or thrown)
    cmsData,         \* getPropsFromCMSDataForPagePath: argument data
    pagePath,        \* getPropsFromCMSDataForPagePath: argument pagePath
    staticProps,     \* getPropsFromCMSDataForPagePath: outcome
    staticPaths,     \* getStaticPaths: outcome
    isDev,           \* process.env.NODE_ENV === 'development'
    fs,              \* the file system: the content of each cache file path
    bootPc,          \* position of the producer inside bootstrap
    wss,             \* whether the websocket server has been started
    cycles,          \* the transform invocations so far, each with its position
    listeners,       \* eventEmitter's listeners of 'props_changed', in order
    conns,           \* the websocket connections: state and messages delivered
    client           \* the consumer's getData() call

vars == <<mode, pathTemplate, page, urlPath, options, objects, transformedData,
          cmsData, pagePath, staticProps, staticPaths,
          isDev, fs, bootPc, wss, cycles, listeners, conns, client>>

interpVars == <<pathTemplate, page, urlPath>>
reduceVars == <<options, objects, transformedData>>
lookupVars == <<cmsData, pagePath, staticProps, staticPaths>>
producerVars == <<isDev, bootPc, wss, cycles, listeners, conns>>
runVars == <<isDev, fs, bootPc, wss, cycles, listeners, conns, client>>

----------------------------------------------------------------------------
(* Bounds of the model *)

MaxTemplateLen == 4
MaxValueLen == 2
MaxRecords == 3
MaxPages == 2
MaxCycles == 2
MaxInFlight == 2
MaxConns == 2
MaxCalls == 2

----------------------------------------------------------------------------
(* JavaScript values *)

Undefined == [t |-> "undef"]
Str(s) == [t |-> "str", v |-> s]
Num(n) == [t |-> "num", v |-> n]
Bool(b) == [t |-> "bool", v |-> b]
Obj(f) == [t |-> "obj", v |-> f]
Arr(s) == [t |-> "arr", v |-> s]

EmptyObj == Obj([k \in {} |-> Undefined])

\* the outcome of a call: [ok |-> TRUE, out |-> value] when it returns,
\* Thrown when an exception leaves it
Returned(val) == [ok |-> TRUE, out |-> val]
Thrown == [ok |-> FALSE, out |-> <<>>]

\* sequences over S of length at most n
SeqUpTo(S, n) == UNION {[1..k -> S] : k \in 0..n}

\* a finite function given by its domain and a total mapping
Restrict(f, D) == [k \in D |-> f[k]]

\* JavaScript truthiness (the operand of '!' in 'if (!fieldValue)')
Truthy(val) ==
    CASE val.t = "undef" -> FALSE
      [] val.t = "str" -> val.v # <<>>
      [] val.t = "num" -> val.v # 0
      [] val.t = "bool" -> val.v
      [] OTHER -> TRUE

\* String(value) of the values a field can hold
ObjectObject == <<"[", "o", "b", "j", "e", "c", "t", " ", "O", "b", "j", "e", "c", "t", "]">>

DigitChar(d) == CASE d = 0 -> "0" [] d = 1 -> "1" [] d = 2 -> "2" [] d = 3 -> "3"
                  [] d = 4 -> "4" [] d = 5 -> "5" [] d = 6 -> "6" [] d = 7 -> "7"
                  [] d = 8 -> "8" [] OTHER -> "9"

RECURSIVE Digits(_)
Digits(n) == IF n < 10 THEN <<DigitChar(n)>> ELSE Digits(n \div 10) \o <<DigitChar(n % 10)>>

toString(val) ==
    CASE val.t = "str" -> val.v
      [] val.t = "num" -> Digits(val.v)
      [] val.t = "bool" -> IF val.v THEN <<"t", "r", "u", "e">> ELSE <<"f", "a", "l", "s", "e">>
      [] val.t = "obj" -> ObjectObject
      [] OTHER -> <<>>

----------------------------------------------------------------------------
(* lodash helpers used by interpolatePagePath *)

\* _.trim(string, '/'): drop the leading and the trailing '/' characters
RECURSIVE TrimStart(_)
TrimStart(s) == IF s # <<>> /\ Head(s) = "/" THEN TrimStart(Tail(s)) ELSE s

RECURSIVE TrimEnd(_)
TrimEnd(s) == IF s # <<>> /\ s[Len(s)] = "/" THEN TrimEnd(SubSeq(s, 1, Len(s) - 1)) ELSE s

Trim(s) == TrimEnd(TrimStart(s))

\* the segments of a property path 'a.b.c' (lodash stringToPath, without brackets)
RECURSIVE SplitDots(_, _)
SplitDots(s, cur) ==
    IF s = <<>> THEN <<cur>>
    ELSE IF Head(s) = "." THEN <<cur>> \o SplitDots(Tail(s), <<>>)
    ELSE SplitDots(Tail(s), Append(cur, Head(s)))

\* own keys of the records of the model are one character long, so a segment
\* names a key only when it has exactly one character
RECURSIVE GetPath(_, _)
GetPath(val, segs) ==
    IF segs = <<>> THEN val
    ELSE IF val.t # "obj" THEN Undefined
    ELSE IF Len(Head(segs)) # 1 THEN Undefined
    ELSE IF Head(segs)[1] \notin DOMAIN val.v THEN Undefined
    ELSE GetPath(val.v[Head(segs)[1]], Tail(segs))

\* _.get(object, path)
Get(object, p) == GetPath(object, SplitDots(p, <<>>))

----------------------------------------------------------------------------
(* interpolatePagePath *)

\* index of the '}' that closes a placeholder opened at i: the regular
\* expression {([\s\S]+?)} takes the nearest '}' with at least one character
\* between the braces; 0 when there is none
CloseOf(s, i) ==
    LET C == {j \in (i + 2)..Len(s) : s[j] = "}"}
    IN IF C = {} THEN 0 ELSE CHOOSE j \in C : \A k \in C : j <= k

\* pathTemplate.replace(/{([\s\S]+?)}/g, callback) from position i on; the
\* callback throws on the first placeholder whose field is falsy
RECURSIVE ReplaceFrom(_, _, _)
ReplaceFrom(s, i, pg) ==
    IF i > Len(s) THEN [ok |-> TRUE, out |-> <<>>]
    ELSE IF s[i] = "{" /\ CloseOf(s, i) # 0
    THEN LET j == CloseOf(s, i)
             fieldValue == Get(pg, SubSeq(s, i + 1, j - 1))
         IN IF ~Truthy(fieldValue) THEN Thrown
            ELSE LET rest == ReplaceFrom(s, j + 1, pg)
                 IN IF rest.ok
                    THEN [ok |-> TRUE, out |-> Trim(toString(fieldValue)) \o rest.out]
                    ELSE rest
    ELSE LET rest == ReplaceFrom(s, i + 1, pg)
         IN IF rest.ok THEN [ok |-> TRUE, out |-> <<s[i]>> \o rest.out] ELSE rest

\* a variant that forgets to prepend the '/'
interpolatePagePath_NoSlash(tpl, pg) == ReplaceFrom(tpl, 1, pg)

\* the result: [ok |-> TRUE, out |-> path] or [ok |-> FALSE, ...] for a throw
interpolatePagePath(tpl, pg) ==
    LET r == ReplaceFrom(tpl, 1, pg)
    IN IF ~r.ok THEN r
       ELSE IF r.out # <<>> /\ Head(r.out) = "/" THEN r
       ELSE [ok |-> TRUE, out |-> <<"/">> \o r.out]

----------------------------------------------------------------------------
(* Predicates and property maps of the configuration *)

\* a caller-supplied predicate: a test of the model name of a record (the form
\* getOptionsFromSetup generates), a test that accepts every record, or a
\* function that throws, on every record or on the records of one model
ModelIs(m) == [k |-> "model", m |-> m]
Always == [k |-> "always", m |-> <<>>]
Throws == [k |-> "throws", m |-> <<>>]
ThrowsOn(m) == [k |-> "throwsOn", m |-> m]

\* predicate(object): "true", "false" or "throw"
Eval(pred, object) ==
    CASE pred.k = "always" -> "true"
      [] pred.k = "throws" -> "throw"
      [] OTHER -> LET name == Get(object, <<"m">>)
                      hit == name.t = "str" /\ name.v = pred.m
                  IN IF pred.k = "throwsOn"
                     THEN (IF hit THEN "throw" ELSE "false")
                     ELSE (IF hit THEN "true" ELSE "false")

\* _.filter(data, predicate)
Filter(data, pred) ==
    IF \E i \in 1..Len(data) : Eval(pred, data[i]) = "throw"
    THEN Thrown
    ELSE Returned(SelectSeq(data, LAMBDA object : Eval(pred, object) = "true"))

\* _.find(data, predicate): the first record the predicate accepts
Find(data, pred) ==
    LET hits == {i \in 1..Len(data) : Eval(pred, data[i]) # "false"}
    IN IF hits = {} THEN Returned(Undefined)
       ELSE LET first == CHOOSE i \in hits : \A j \in hits : i <= j
            IN IF Eval(pred, data[first]) = "throw" THEN Thrown ELSE Returned(data[first])

\* _.assign({}, target, source) on objects: the keys of source on top
Assign(target, source) ==
    Obj([k \in DOMAIN target.v \cup DOMAIN source.v |->
            IF k \in DOMAIN source.v THEN source.v[k] ELSE target.v[k]])

\* a custom function (records) -> value: body is what it computes, or it
\* throws, or it hands back the objects it was given: as pages function the
\* records themselves (objects => objects), as commonProps function the first
\* record (objects => objects[0])
Fn(body) == [t |-> "fn", throws |-> FALSE, self |-> FALSE, v |-> body]
ThrowingFn == [t |-> "fn", throws |-> TRUE, self |-> FALSE, v |-> <<>>]
RecordsFn == [t |-> "fn", throws |-> FALSE, self |-> TRUE, v |-> <<>>]

----------------------------------------------------------------------------
(* reducePropsMap *)

\* the value of one property definition
PropValue(propDef, data) ==
    IF propDef.single
    THEN Find(data, propDef.predicate)
    ELSE LET f == Filter(data, propDef.predicate)
         IN IF f.ok THEN Returned(Arr(f.out)) ELSE Thrown

\* the declarative map: one key per definition
ReduceDeclaredProps(defs, data) ==
    IF \E name \in DOMAIN defs : ~PropValue(defs[name], data).ok
    THEN Thrown
    ELSE Returned(Obj([name \in DOMAIN defs |-> PropValue(defs[name], data).out]))

\* propsMap is undefined, a custom function or a declarative map; the custom
\* functions are the ones getOptionsFromSetup builds, which compute what the
\* declarative map of their body computes
reducePropsMap(propsMap, data) ==
    CASE propsMap.t = "fn" ->
            IF propsMap.throws THEN Thrown
            ELSE IF propsMap.self
            THEN Returned(IF data = <<>> THEN Undefined ELSE Head(data))
            ELSE ReduceDeclaredProps(propsMap.v, data)
      [] propsMap.t = "undef" -> Returned(EmptyObj)
      [] OTHER -> ReduceDeclaredProps(propsMap.v, data)

----------------------------------------------------------------------------
(* reducePages *)

DefaultPathTemplate == <<"/", "{", "s", "}">>

\* the page objects a generated pages function returns: for each record, in
\* order, the {path, page} of the first branch whose condition it meets
RECURSIVE PageObjects(_, _)
PageObjects(branches, data) ==
    IF data = <<>> THEN <<>>
    ELSE LET object == Head(data)
             hits == {b \in 1..Len(branches) : Eval(branches[b].predicate, object) = "true"}
         IN (IF hits = {} THEN <<>>
             ELSE LET b == CHOOSE x \in hits : \A y \in hits : x <= y
                  IN << Obj([k \in {"path", "page"} |->
                              IF k = "path" THEN Str(branches[b].path) ELSE object]) >>)
            \o PageObjects(branches, Tail(data))

\* interpolatePagePath(item.path, item.page) inside the try: item.path.replace
\* is a TypeError when item.path is no string
InterpolateItem(item) ==
    IF "path" \notin DOMAIN item.v \/ item.v["path"].t # "str" THEN Thrown
    ELSE interpolatePagePath(item.v["path"].v,
                             IF "page" \in DOMAIN item.v THEN item.v["page"] ELSE Undefined)

\* function mode: the items whose path interpolates, with the path resolved
RECURSIVE ReduceItems(_)
ReduceItems(pageObjects) ==
    IF pageObjects = <<>> THEN <<>>
    ELSE LET item == Head(pageObjects)
             urlPathOf == InterpolateItem(item)
         IN (IF urlPathOf.ok
             THEN << Assign(item, Obj([k \in {"path"} |-> Str(urlPathOf.out)])) >>
             ELSE <<>>)
            \o ReduceItems(Tail(pageObjects))

\* pageTypeDef.path || '/{slug}'
TemplateOf(pageTypeDef) ==
    IF pageTypeDef.path.t = "str" /\ pageTypeDef.path.v # <<>>
    THEN pageTypeDef.path.v ELSE DefaultPathTemplate

\* { path: urlPath, page: page, ...props }
PageEntry(path, pg, props) ==
    Assign(Obj([k \in {"path", "page"} |-> IF k = "path" THEN Str(path) ELSE pg]), props)

\* a variant without the try/catch around interpolatePagePath
ReduceMatching_NoCatch(matching, pageTypeDef, data) ==
    LET props == reducePropsMap(pageTypeDef.props, data)
    IN IF matching = <<>> THEN Returned(<<>>)
       ELSE IF \E i \in 1..Len(matching) :
                  ~interpolatePagePath(TemplateOf(pageTypeDef), matching[i]).ok
       THEN Thrown
       ELSE IF ~props.ok THEN Thrown
       ELSE Returned([i \in 1..Len(matching) |->
               PageEntry(interpolatePagePath(TemplateOf(pageTypeDef), matching[i]).out,
                         matching[i], props.out)])

\* declarative mode, inner reduce: the entries of one page type definition
RECURSIVE ReduceMatching(_, _, _)
ReduceMatching(matching, pageTypeDef, data) ==
    IF matching = <<>> THEN Returned(<<>>)
    ELSE LET pg == Head(matching)
             urlPathOf == interpolatePagePath(TemplateOf(pageTypeDef), pg)
             props == reducePropsMap(pageTypeDef.props, data)
             rest == ReduceMatching(Tail(matching), pageTypeDef, data)
         IN IF ~urlPathOf.ok THEN rest
            ELSE IF ~props.ok \/ ~rest.ok THEN Thrown
            ELSE Returned(<< PageEntry(urlPathOf.out, pg, props.out) >> \o rest.out)

\* a variant that puts the entries of a later definition first
RECURSIVE ReduceDefs_LastFirst(_, _)
ReduceDefs_LastFirst(defs, data) ==
    IF defs = <<>> THEN Returned(<<>>)
    ELSE LET matching == Filter(data, Head(defs).predicate)
         IN IF ~matching.ok THEN Thrown
            ELSE LET these == ReduceMatching(matching.out, Head(defs), data)
                     rest == ReduceDefs_LastFirst(Tail(defs), data)
                 IN IF these.ok /\ rest.ok THEN Returned(rest.out \o these.out) ELSE Thrown

\* declarative mode, outer reduce: the definitions in order
RECURSIVE ReduceDefs(_, _)
ReduceDefs(defs, data) ==
    IF defs = <<>> THEN Returned(<<>>)
    ELSE LET matching == Filter(data, Head(defs).predicate)
         IN IF ~matching.ok THEN Thrown
            ELSE LET these == ReduceMatching(matching.out, Head(defs), data)
                     rest == ReduceDefs(Tail(defs), data)
                 IN IF these.ok /\ rest.ok THEN Returned(these.out \o rest.out) ELSE Thrown

\* pagesOption is undefined, a custom function or a list of page type definitions
reducePages(pagesOption, data) ==
    CASE pagesOption.t = "fn" ->
            IF pagesOption.throws THEN Thrown
            ELSE IF pagesOption.self THEN Returned(Arr(ReduceItems(data)))
            ELSE Returned(Arr(ReduceItems(PageObjects(pagesOption.v, data))))
      [] pagesOption.t = "undef" -> Returned(Arr(<<>>))
      [] OTHER -> LET r == ReduceDefs(pagesOption.v, data)
                  IN IF r.ok THEN Returned(Arr(r.out)) ELSE Thrown

\* the snapshot {props, pages}
reduceAndTransformData(data, reduceOptions) ==
    LET props == reducePropsMap(reduceOptions.commonProps, data)
        pageList == reducePages(reduceOptions.pages, data)
    IN IF props.ok /\ pageList.ok
       THEN Returned(Obj([k \in {"props", "pages"} |->
                            IF k = "props" THEN props.out ELSE pageList.out]))
       ELSE Thrown

----------------------------------------------------------------------------
(* SourcebitDataClient.getPropsFromCMSDataForPagePath *)

\* _.find(data.pages, {path: pagePath}): the first entry whose path is the
\* string pagePath, or undefined
FindByPath(pageList, path) ==
    LET hits == {i \in 1..Len(pageList) :
                    /\ pageList[i].t = "obj"
                    /\ "path" \in DOMAIN pageList[i].v
                    /\ pageList[i].v["path"] = Str(path)}
    IN IF hits = {} THEN Undefined
       ELSE pageList[CHOOSE i \in hits : \A j \in hits : i <= j]

\* _.assign(object, source): lodash makes the target an object first
\* (Object(undefined) is {}), then copies the own keys of a source object
LodashAssign(object, source) ==
    LET target == IF object.t = "obj" THEN object ELSE EmptyObj
    IN IF source.t = "obj" THEN Assign(target, source) ELSE target

\* a variant that applies the page entry on top of the shared props
getPropsFromCMSDataForPagePath_PageOnTop(snapshot, path) ==
    LodashAssign(snapshot.v["props"], FindByPath(snapshot.v["pages"].v, path))

getPropsFromCMSDataForPagePath(snapshot, path) ==
    LodashAssign(FindByPath(snapshot.v["pages"].v, path), snapshot.v["props"])

\* getStaticPaths: _.map(data.pages, (page) => page.path)
getStaticPaths(snapshot) ==
    [i \in 1..Len(snapshot.v["pages"].v) |->
        LET entry == snapshot.v["pages"].v[i]
        IN IF entry.t = "obj" /\ "path" \in DOMAIN entry.v THEN entry.v["path"] ELSE Undefined]

----------------------------------------------------------------------------
(* The cache file: fse.ensureFile, fse.writeJson, fse.readJson *)

Null == [t |-> "null"]

\* JSON.parse(JSON.stringify(value)): a key whose value is undefined or a
\* function is left out of an object, and becomes null inside an array
RECURSIVE JsonOf(_)
JsonOf(val) ==
    CASE val.t = "obj" ->
            Obj([k \in {x \in DOMAIN val.v : val.v[x].t \notin {"undef", "fn"}} |->
                    JsonOf(val.v[k])])
      [] val.t = "arr" ->
            Arr([i \in 1..Len(val.v) |->
                    IF val.v[i].t \in {"undef", "fn"} THEN Null ELSE JsonOf(val.v[i])])
      [] OTHER -> val

DEFAULT_FILE_CACHE_PATH == "cwd/.sourcebit-nextjs-cache.json"
ConfiguredPath == "cwd/.cache/data.json"
Paths == {DEFAULT_FILE_CACHE_PATH, ConfiguredPath}

DEFAULT_LIVE_UPDATE_PORT == 8088
LIVE_UPDATE_EVENT_NAME == "props_changed"
EventNameChars == <<"p", "r", "o", "p", "s", "_", "c", "h", "a", "n", "g", "e", "d">>

\* the content of a path: no file, an empty or partly written file (created
\* by ensureFile, or opened for writing by writeJson and not yet written), or
\* a complete JSON text; writer tells which run and cycle wrote the text (it
\* is not part of the file)
AbsentFile == [kind |-> "absent"]
PartialFile == [kind |-> "partial"]
JsonFile(val, run, cycle) == [kind |-> "json", v |-> val, run |-> run, cycle |-> cycle]

\* _.get(options, name, default)
OptionOr(opts, name, default) == IF opts[name].t = "undef" THEN default ELSE opts[name].v

\* the path bootstrap removes and transform writes
CacheFilePath(opts) == OptionOr(opts, "cacheFilePath", DEFAULT_FILE_CACHE_PATH)

\* the path getData polls and reads
ClientPath(opts) == DEFAULT_FILE_CACHE_PATH

LiveUpdate(opts, dev) == OptionOr(opts, "liveUpdate", dev)

\* the port advertised to the consumer
ClientWsPort(opts) ==
    OptionOr(opts, "liveUpdateWsClientPort",
             OptionOr(opts, "liveUpdateWsPort", DEFAULT_LIVE_UPDATE_PORT))

\* the three keys transform sets when live-update is enabled
LiveUpdateKeys(opts) ==
    Obj([k \in {"liveUpdate", "liveUpdateWsPort", "liveUpdateEventName"} |->
            CASE k = "liveUpdate" -> Bool(TRUE)
              [] k = "liveUpdateWsPort" -> Num(ClientWsPort(opts))
              [] OTHER -> Str(EventNameChars)])

\* _.set(transformedData, 'props.liveUpdate', ...) and the two other keys;
\* _.set makes props an object when it is none
WithLiveUpdate(snapshot, opts, dev) ==
    IF ~LiveUpdate(opts, dev) THEN snapshot
    ELSE Assign(snapshot, Obj([k \in {"props"} |->
                    LodashAssign(snapshot.v["props"], LiveUpdateKeys(opts))]))

\* the records once the synchronous part of transform has run. The values of
\* the model are copies, so the writes of transform to objects it shares with
\* its caller are applied here: _.assign(item, {path}) writes to the items
\* the pages function returned, which are the records when it returned them,
\* and _.set(transformedData, 'props...') writes to what the commonProps
\* function returned, which is the first record when it returned that
RecordsAfter(data, opts, dev) ==
    LET paged == IF opts.pages.t = "fn" /\ ~opts.pages.throws /\ opts.pages.self
                 THEN [i \in 1..Len(data) |->
                         LET urlPathOf == InterpolateItem(data[i])
                         IN IF urlPathOf.ok
                            THEN Assign(data[i], Obj([k \in {"path"} |-> Str(urlPathOf.out)]))
                            ELSE data[i]]
                 ELSE data
    IN IF /\ opts.commonProps.t = "fn" /\ ~opts.commonProps.throws /\ opts.commonProps.self
          /\ LiveUpdate(opts, dev) /\ paged # <<>>
       THEN [paged EXCEPT ![1] = Assign(@, LiveUpdateKeys(opts))]
       ELSE paged

\* fse.ensureFile: a missing file is created empty, an existing one is kept
EnsureFile(files, path) ==
    IF files[path].kind = "absent" THEN [files EXCEPT ![path] = PartialFile] ELSE files

----------------------------------------------------------------------------
(* The live-update channel *)

Hello == [msg |-> "hello", cycle |-> 0]

\* the token carries no payload; cycle tells which cycle emitted it
Token(k) == [msg |-> LIVE_UPDATE_EVENT_NAME, cycle |-> k]

\* a variant that keeps only the listener of the newest connection
Subscribe_OnlyNewest(ls, c) == <<c>>

\* eventEmitter.on(LIVE_UPDATE_EVENT_NAME, listener of connection c)
Subscribe(ls, c) == Append(ls, c)

\* eventEmitter.emit: every listener, in order, sends the token on its
\* connection; ws delivers it when the socket is open and discards it when the
\* socket has closed (ws.send without callback does not throw after close)
RECURSIVE Broadcast(_, _, _)
Broadcast(ls, cs, k) ==
    IF ls = <<>> THEN cs
    ELSE LET c == Head(ls)
             sent == IF cs[c].state = "open"
                     THEN [cs EXCEPT ![c].inbox = Append(@, Token(k))]
                     ELSE [cs EXCEPT ![c].deadSend = TRUE]
         IN Broadcast(Tail(ls), sent, k)

----------------------------------------------------------------------------
(* SourcebitDataClient.getData *)

retryDelay == 500
maxNumOfRetries == 10

\* a variant that retries for as long as the file is absent
ShouldRetry_NoBudget(pathExists, numOfRetries) == ~pathExists

\* a variant with an off-by-one retry budget
ShouldRetry_OneMore(pathExists, numOfRetries) ==
    ~pathExists /\ numOfRetries <= maxNumOfRetries

\* !pathExists && numOfRetries < maxNumOfRetries
ShouldRetry(pathExists, numOfRetries) ==
    ~pathExists /\ numOfRetries < maxNumOfRetries

\* fse.pathExists
PathExists(files, path) == files[path].kind # "absent"

----------------------------------------------------------------------------
(* Inputs of the interpolation *)

TemplateChars == {"/", "{", "}", ".", "s", "c"}
ValueChars == {"/", "a", "{", "}"}

\* '/posts/{s}' and '/{c.s}/{s}', the examples of the documentation, with
\* one-character field names
ExampleTemplates ==
    { <<"/", "p", "/", "{", "s", "}">>,
      <<"/", "{", "c", ".", "s", "}", "/", "{", "s", "}">>,
      <<"{", "s", "}", "/", "{", "c", "}">> }

Templates == SeqUpTo(TemplateChars, MaxTemplateLen) \cup ExampleTemplates

FieldStrings == SeqUpTo(ValueChars, MaxValueLen)

\* content records with an optional field s and an optional field c, which
\* is a nested record or a string
NestedValues == {Obj([k \in {"s"} |-> Str(<<"a">>)]), Obj([k \in {"s"} |-> Str(<<>>)]),
                 Str(<<"/", "a", "/">>), Num(0), Num(12)}

InterpPages ==
    {EmptyObj}
    \cup {Obj([k \in {"s"} |-> Str(v)]) : v \in FieldStrings}
    \cup {Obj([k \in {"c"} |-> c]) : c \in NestedValues}
    \cup {Obj([k \in {"s", "c"} |-> IF k = "s" THEN Str(v) ELSE c]) :
             v \in FieldStrings, c \in NestedValues}

NotRun == [ok |-> FALSE, out |-> <<"-">>]

NoOptions == [commonProps |-> Undefined, pages |-> Undefined]

InterpIdle == pathTemplate = <<>> /\ page = Undefined /\ urlPath = NotRun
ReduceIdle == options = NoOptions /\ objects = <<>> /\ transformedData = NotRun
LookupIdle ==
    cmsData = Undefined /\ pagePath = <<>> /\ staticProps = NotRun /\ staticPaths = NotRun

\* a getData() call: pc is its position, numOfRetries the counter of the
\* code; the other fields record what the call did and when it started
\*   checks, slept, reads: existence checks made, milliseconds waited, reads
\*   sawWritten: the last cycle, when every cycle started so far had written
\*               its file before the call started (0: otherwise)
\*   sawToken: whether the token of that cycle had been received by then
\*   afterBoot: whether bootstrap had completed when the call started
IdleClient(calls) ==
    [pc |-> "idle", numOfRetries |-> 0, timer |-> FALSE, path |-> "",
     checks |-> 0, slept |-> 0, reads |-> 0,
     result |-> Undefined, error |-> "", errPath |-> "", errRetries |-> 0,
     sawWritten |-> 0, sawToken |-> FALSE, afterBoot |-> FALSE, calls |-> calls]

\* a connection: deadSend tells whether a send was attempted after its close
NoConn == [state |-> "none", inbox |-> <<>>, deadSend |-> FALSE]

RunIdle ==
    /\ isDev = FALSE
    /\ fs = [p \in Paths |-> AbsentFile]
    /\ bootPc = "start"
    /\ wss = FALSE
    /\ cycles = <<>>
    /\ listeners = <<>>
    /\ conns = [c \in 1..MaxConns |-> NoConn]
    /\ client = IdleClient(0)

InitInterp ==
    /\ mode = "interpolate"
    /\ pathTemplate \in Templates
    /\ page \in InterpPages
    /\ urlPath = NotRun
    /\ ReduceIdle
    /\ LookupIdle
    /\ RunIdle

Interpolate ==
    /\ mode = "interpolate"
    /\ urlPath = NotRun
    /\ urlPath' = interpolatePagePath(pathTemplate, page)
    /\ UNCHANGED <<mode, pathTemplate, page, reduceVars, lookupVars, runVars>>

NextInterp == Interpolate

SpecInterp == InitInterp /\ [][NextInterp]_vars

----------------------------------------------------------------------------
(* Inputs of the reduction *)

\* content records: m is the model name (__metadata.modelName), s the slug
SlugValues == {<<>>, <<"a">>, <<"/", "b", "/">>}

ContentRecords ==
    {Obj([k \in {"m"} |-> Str(<<m>>)]) : m \in {"p", "q"}}
    \cup {Obj([k \in {"m", "s"} |-> IF k = "m" THEN Str(<<m>>) ELSE Str(v)]) :
             m \in {"p", "q"}, v \in SlugValues}

DataSets == SeqUpTo(ContentRecords, MaxRecords)

PropDef(single, predicate) == [single |-> single, predicate |-> predicate]

\* page type definitions: posts at '/p/{s}' with the list of all posts, pages
\* at the default template, and every record at '/{s}' with props named like
\* the keys of a page entry
PostsDef == [predicate |-> ModelIs(<<"p">>),
             path |-> Str(<<"/", "p", "/", "{", "s", "}">>),
             props |-> Obj([n \in {"x"} |-> PropDef(FALSE, ModelIs(<<"p">>))])]

PagesDef == [predicate |-> ModelIs(<<"q">>), path |-> Undefined, props |-> Undefined]

AnyDef == [predicate |-> Always,
           path |-> Str(<<"/", "{", "s", "}">>),
           props |-> Obj([n \in {"path", "y"} |-> PropDef(n = "y", ModelIs(<<"q">>))])]

\* every record at '/{s}', without props: overlaps the two definitions above
OverlapDef == [predicate |-> Always, path |-> Str(<<"/", "{", "s", "}">>), props |-> Undefined]

ThrowingDef == [predicate |-> Throws, path |-> Undefined, props |-> Undefined]

ThrowingPropsDef == [predicate |-> ModelIs(<<"q">>), path |-> Undefined,
                     props |-> Obj([n \in {"x"} |-> PropDef(TRUE, Throws)])]

Branch(predicate, path) == [predicate |-> predicate, path |-> path]

GeneratedPages == Fn(<< Branch(ModelIs(<<"p">>), <<"/", "p", "/", "{", "s", "}">>),
                        Branch(ModelIs(<<"q">>), <<"/", "{", "s", "}">>) >>)

LiteralPages == Fn(<< Branch(Always, <<"a">>) >>)

PagesOptions ==
    { Undefined, Arr(<<>>), Arr(<<PostsDef>>), Arr(<<PostsDef, PagesDef>>),
      Arr(<<PagesDef, AnyDef>>), Arr(<<AnyDef, PostsDef>>), Arr(<<PostsDef, OverlapDef>>),
      Arr(<<PagesDef, ThrowingDef>>), Arr(<<ThrowingPropsDef>>),
      GeneratedPages, LiteralPages, ThrowingFn }

CommonPropsOptions ==
    { Undefined,
      Obj([n \in {"x", "y"} |-> PropDef(n = "y", ModelIs(<<"q">>))]),
      Fn([n \in {"x"} |-> PropDef(TRUE, ModelIs(<<"p">>))]),
      Obj([n \in {"x"} |-> PropDef(FALSE, Throws)]),
      ThrowingFn }

ReduceOptions == [commonProps : CommonPropsOptions, pages : PagesOptions]

InitReduce ==
    /\ mode = "reduce"
    /\ options \in ReduceOptions
    /\ objects \in DataSets
    /\ transformedData = NotRun
    /\ InterpIdle
    /\ LookupIdle
    /\ RunIdle

Reduce ==
    /\ mode = "reduce"
    /\ transformedData = NotRun
    /\ transformedData' = reduceAndTransformData(objects, options)
    /\ UNCHANGED <<mode, options, objects, interpVars, lookupVars, runVars>>

\* getStaticPaths on the snapshot as the consumer reads it back from the
\* cache file
GetStaticPaths ==
    /\ mode = "reduce"
    /\ transformedData # NotRun /\ transformedData.ok
    /\ staticPaths = NotRun
    /\ staticPaths' = Returned(getStaticPaths(JsonOf(transformedData.out)))
    /\ UNCHANGED <<mode, cmsData, pagePath, staticProps, interpVars, reduceVars, runVars>>

NextReduce == Reduce \/ GetStaticPaths

SpecReduce == InitReduce /\ [][NextReduce]_vars

----------------------------------------------------------------------------
(* Inputs of the lookup *)

LookupPaths == { <<"/", "a">>, <<"/", "b">>, <<"/", "a", "/">>, <<"a">> }

EntryPaths == { <<"/", "a">>, <<"/", "b">> }

EntryRecords == { Obj([k \in {"m"} |-> Str(<<"p">>)]), Obj([k \in {"m"} |-> Str(<<"q">>)]) }

\* page entries {path, page} with an optional resolved prop title
SnapshotEntries ==
    {Obj([k \in {"path", "page"} |-> IF k = "path" THEN Str(p) ELSE r]) :
        p \in EntryPaths, r \in EntryRecords}
    \cup {Obj([k \in {"path", "page", "title"} |->
                 IF k = "path" THEN Str(p) ELSE IF k = "page" THEN r ELSE Str(<<"A">>)]) :
             p \in EntryPaths, r \in EntryRecords}

\* shared props: any subset of the keys title, path, page and liveUpdate
SharedValue(k) ==
    CASE k = "title" -> Str(<<"B">>)
      [] k = "path" -> Str(<<"/", "b">>)
      [] k = "page" -> Num(7)
      [] OTHER -> Bool(TRUE)

SharedProps == {Obj([k \in K |-> SharedValue(k)]) : K \in SUBSET {"title", "path", "page", "liveUpdate"}}

Snapshots ==
    {Obj([k \in {"props", "pages"} |-> IF k = "props" THEN pr ELSE Arr(pl)]) :
        pr \in SharedProps, pl \in SeqUpTo(SnapshotEntries, MaxPages)}

InitLookup ==
    /\ mode = "lookup"
    /\ cmsData \in Snapshots
    /\ pagePath \in LookupPaths
    /\ staticProps = NotRun
    /\ staticPaths = NotRun
    /\ InterpIdle
    /\ ReduceIdle
    /\ RunIdle

Lookup ==
    /\ mode = "lookup"
    /\ staticProps = NotRun
    /\ staticProps' = getPropsFromCMSDataForPagePath(cmsData, pagePath)
    /\ UNCHANGED <<mode, cmsData, pagePath, staticPaths, interpVars, reduceVars, runVars>>

NextLookup == Lookup

SpecLookup == InitLookup /\ [][NextLookup]_vars

----------------------------------------------------------------------------
(* Producer and consumer: bootstrap, transform, the websocket server and    *)
(* getData                                                                  *)

\* the records the pipeline hands to transform: a post at first, then a page
\* without slug and a post, then the first records again, and so on; the
\* first post has a field named path
RunData(k) ==
    IF k % 2 = 1
    THEN << Obj([f \in {"m", "s", "path"} |->
                   CASE f = "m" -> Str(<<"p">>) [] f = "s" -> Str(<<"a">>) [] OTHER -> Str(<<"a">>)]) >>
    ELSE << Obj([f \in {"m"} |-> Str(<<"q">>)]),
            Obj([f \in {"m", "s"} |-> IF f = "m" THEN Str(<<"p">>) ELSE Str(<<"/", "b", "/">>)]) >>

RunReduceOptions ==
    { [commonProps |-> Obj([n \in {"x", "y"} |-> PropDef(n = "x", ModelIs(<<"q">>))]),
       pages |-> Arr(<<PostsDef, PagesDef>>)],
      [commonProps |-> Undefined, pages |-> ThrowingFn],
      [commonProps |-> Obj([n \in {"x"} |-> PropDef(FALSE, ThrowsOn(<<"q">>))]),
       pages |-> Arr(<<PostsDef>>)] }

\* custom functions that hand back the records they are given
RunRecordsOptions ==
    { [commonProps |-> Undefined, pages |-> RecordsFn],
      [commonProps |-> RecordsFn, pages |-> Undefined] }

RunOptions ==
    { [cacheFilePath |-> cfp, liveUpdate |-> lu,
       liveUpdateWsPort |-> Undefined, liveUpdateWsClientPort |-> Undefined,
       commonProps |-> r.commonProps, pages |-> r.pages] :
         cfp \in {Undefined, [t |-> "str", v |-> ConfiguredPath]},
         lu \in {Undefined, Bool(FALSE)},
         r \in RunReduceOptions }
    \cup
    { [cacheFilePath |-> Undefined, liveUpdate |-> Undefined,
       liveUpdateWsPort |-> Undefined, liveUpdateWsClientPort |-> Undefined,
       commonProps |-> r.commonProps, pages |-> r.pages] : r \in RunRecordsOptions }

\* the snapshot a previous run of the producer left behind
StaleSnapshot ==
    Obj([k \in {"props", "pages"} |-> IF k = "props" THEN EmptyObj ELSE Arr(<<>>)])

StaleFile == JsonFile(StaleSnapshot, 0, 0)

InitRun ==
    /\ mode = "run"
    /\ isDev \in BOOLEAN
    /\ options \in RunOptions
    /\ options.liveUpdate.t = "bool" => isDev
    /\ fs \in {[p \in Paths |-> AbsentFile],
              [p \in Paths |-> IF p = DEFAULT_FILE_CACHE_PATH THEN StaleFile ELSE AbsentFile]}
    \* the functions that hand back the records: a pages function in a
    \* production run, a commonProps function in a development run
    /\ options.pages = RecordsFn => (~isDev /\ fs[DEFAULT_FILE_CACHE_PATH] = AbsentFile)
    /\ options.commonProps = RecordsFn => (isDev /\ fs[DEFAULT_FILE_CACHE_PATH] = AbsentFile)
    /\ bootPc = "start"
    /\ wss = FALSE
    /\ cycles = <<>>
    /\ listeners = <<>>
    /\ conns = [c \in 1..MaxConns |-> NoConn]
    /\ client = IdleClient(0)
    /\ InterpIdle
    /\ objects = <<>> /\ transformedData = NotRun
    /\ LookupIdle

pureVars == <<pathTemplate, page, urlPath, objects, transformedData,
              cmsData, pagePath, staticProps, staticPaths>>

\* bootstrap: await fse.remove(cacheFilePath)
BootstrapRemove ==
    /\ mode = "run" /\ bootPc = "start"
    /\ fs' = [fs EXCEPT ![CacheFilePath(options)] = AbsentFile]
    /\ bootPc' = "removed"
    /\ UNCHANGED <<mode, options, isDev, wss, cycles, listeners, conns, client, pureVars>>

\* bootstrap: if (liveUpdate) startStaticPropsWatcher(...)
BootstrapWatcher ==
    /\ mode = "run" /\ bootPc = "removed"
    /\ wss' = LiveUpdate(options, isDev)
    /\ bootPc' = "done"
    /\ UNCHANGED <<mode, options, isDev, fs, cycles, listeners, conns, client, pureVars>>

InFlight == {k \in 1..Len(cycles) : cycles[k].pc \notin {"returned", "threw"}}

\* a variant that creates the cache file before it reduces the records
TransformStart_EnsureFirst ==
    /\ mode = "run" /\ bootPc = "done"
    /\ Len(cycles) < MaxCycles
    /\ Cardinality(InFlight) < MaxInFlight
    /\ fs' = EnsureFile(fs, CacheFilePath(options))
    /\ \E r \in {reduceAndTransformData(RunData(Len(cycles) + 1),
                                         [commonProps |-> options.commonProps,
                                          pages |-> options.pages])} :
          cycles' = Append(cycles,
             IF r.ok
             THEN [pc |-> "writeJson",
                   snap |-> WithLiveUpdate(r.out, options, isDev), openAtEmit |-> {},
                   records |-> RecordsAfter(RunData(Len(cycles) + 1), options, isDev)]
             ELSE [pc |-> "threw", snap |-> Undefined, openAtEmit |-> {},
                   records |-> RunData(Len(cycles) + 1)])
    /\ UNCHANGED <<mode, options, isDev, bootPc, wss, listeners, conns, client, pureVars>>

\* transform up to its first await: the reduction and the live-update keys;
\* nothing in transform waits for an earlier invocation
TransformStart ==
    /\ mode = "run" /\ bootPc = "done"
    /\ Len(cycles) < MaxCycles
    /\ Cardinality(InFlight) < MaxInFlight
    /\ \E r \in {reduceAndTransformData(RunData(Len(cycles) + 1),
                                         [commonProps |-> options.commonProps,
                                          pages |-> options.pages])} :
          cycles' = Append(cycles,
             IF r.ok
             THEN [pc |-> "ensureFile",
                   snap |-> WithLiveUpdate(r.out, options, isDev), openAtEmit |-> {},
                   records |-> RecordsAfter(RunData(Len(cycles) + 1), options, isDev)]
             ELSE [pc |-> "threw", snap |-> Undefined, openAtEmit |-> {},
                   records |-> RunData(Len(cycles) + 1)])
    /\ UNCHANGED <<mode, options, isDev, fs, bootPc, wss, listeners, conns, client, pureVars>>

\* await fse.ensureFile(cacheFilePath)
TransformEnsureFile(k) ==
    /\ mode = "run" /\ cycles[k].pc = "ensureFile"
    /\ fs' = EnsureFile(fs, CacheFilePath(options))
    /\ cycles' = [cycles EXCEPT ![k].pc = "writeJson"]
    /\ UNCHANGED <<mode, options, isDev, bootPc, wss, listeners, conns, client, pureVars>>

\* fse.writeJson opens the file for writing, which truncates it
TransformWriteOpen(k) ==
    /\ mode = "run" /\ cycles[k].pc = "writeJson"
    /\ fs' = [fs EXCEPT ![CacheFilePath(options)] = PartialFile]
    /\ cycles' = [cycles EXCEPT ![k].pc = "writing"]
    /\ UNCHANGED <<mode, options, isDev, bootPc, wss, listeners, conns, client, pureVars>>

\* fse.writeJson has written the text and closed the file
TransformWriteDone(k) ==
    /\ mode = "run" /\ cycles[k].pc = "writing"
    /\ fs' = [fs EXCEPT ![CacheFilePath(options)] = JsonFile(JsonOf(cycles[k].snap), 1, k)]
    /\ cycles' = [cycles EXCEPT ![k].pc = "emit"]
    /\ UNCHANGED <<mode, options, isDev, bootPc, wss, listeners, conns, client, pureVars>>

\* if (liveUpdate) eventEmitter.emit(LIVE_UPDATE_EVENT_NAME); return data
TransformEmit(k) ==
    /\ mode = "run" /\ cycles[k].pc = "emit"
    /\ conns' = IF LiveUpdate(options, isDev) THEN Broadcast(listeners, conns, k) ELSE conns
    /\ cycles' = [cycles EXCEPT ![k].pc = "returned",
                                ![k].openAtEmit = {c \in 1..MaxConns : conns[c].state = "open"}]
    /\ UNCHANGED <<mode, options, isDev, fs, bootPc, wss, listeners, client, pureVars>>

\* wss.on('connection'): subscribe the connection, then send 'hello'
Connect(c) ==
    /\ mode = "run" /\ wss
    /\ conns[c].state = "none"
    /\ \A b \in 1..(c - 1) : conns[b].state # "none"
    /\ listeners' = Subscribe(listeners, c)
    /\ conns' = [conns EXCEPT ![c].state = "open", ![c].inbox = Append(@, Hello)]
    /\ UNCHANGED <<mode, options, isDev, fs, bootPc, wss, cycles, client, pureVars>>

\* ws.on('close'): the handler only logs
Close(c) ==
    /\ mode = "run"
    /\ conns[c].state = "open"
    /\ conns' = [conns EXCEPT ![c].state = "closed"]
    /\ UNCHANGED <<mode, options, isDev, fs, bootPc, wss, cycles, listeners, client, pureVars>>

AllWritten == \A k \in 1..Len(cycles) : cycles[k].pc \in {"emit", "returned"}

TokenReceived(k) ==
    \E c \in 1..MaxConns : \E i \in 1..Len(conns[c].inbox) : conns[c].inbox[i] = Token(k)

\* getData() is called
GetDataStart ==
    /\ mode = "run"
    /\ client.pc \in {"idle", "resolved", "rejected"}
    /\ client.calls < MaxCalls
    /\ client' = [IdleClient(client.calls + 1) EXCEPT
                     !.pc = "check",
                     !.sawWritten = IF AllWritten THEN Len(cycles) ELSE 0,
                     !.sawToken = AllWritten /\ TokenReceived(Len(cycles)),
                     !.afterBoot = (bootPc = "done")]
    /\ UNCHANGED <<mode, options, fs, producerVars, pureVars>>

\* checkPathExists, called by getData or by the timer of
\* setTimeout(checkPathExists, retryDelay)
CheckPathExists ==
    /\ mode = "run" /\ client.pc = "check"
    /\ LET path == ClientPath(options)
           pathExists == PathExists(fs, path)
           called == [client EXCEPT !.path = path, !.checks = @ + 1, !.timer = FALSE,
                                    !.slept = IF client.timer THEN @ + retryDelay ELSE @]
       IN client' =
            IF ShouldRetry(pathExists, client.numOfRetries)
            THEN [called EXCEPT !.timer = TRUE, !.numOfRetries = @ + 1]
            ELSE IF ~pathExists
            THEN [called EXCEPT !.pc = "rejected", !.error = "not found",
                                !.errPath = path, !.errRetries = client.numOfRetries]
            ELSE [called EXCEPT !.pc = "read"]
    /\ UNCHANGED <<mode, options, fs, producerVars, pureVars>>

\* return fse.readJson(DEFAULT_FILE_CACHE_PATH)
ReadJson ==
    /\ mode = "run" /\ client.pc = "read"
    /\ LET file == fs[ClientPath(options)]
       IN client' =
            CASE file.kind = "absent" ->
                    [client EXCEPT !.pc = "rejected", !.reads = @ + 1, !.error = "ENOENT"]
              [] file.kind = "partial" ->
                    [client EXCEPT !.pc = "rejected", !.reads = @ + 1, !.error = "parse"]
              [] OTHER ->
                    [client EXCEPT !.pc = "resolved", !.reads = @ + 1,
                                   !.result = [v |-> file.v, run |-> file.run, cycle |-> file.cycle]]
    /\ UNCHANGED <<mode, options, fs, producerVars, pureVars>>

Next ==
    \/ BootstrapRemove
    \/ BootstrapWatcher
    \/ TransformStart
    \/ \E k \in 1..Len(cycles) : TransformEnsureFile(k)
    \/ \E k \in 1..Len(cycles) : TransformWriteOpen(k)
    \/ \E k \in 1..Len(cycles) : TransformWriteDone(k)
    \/ \E k \in 1..Len(cycles) : TransformEmit(k)
    \/ \E c \in 1..MaxConns : Connect(c)
    \/ \E c \in 1..MaxConns : Close(c)
    \/ GetDataStart
    \/ CheckPathExists
    \/ ReadJson

Spec == InitRun /\ [][Next]_vars

\* the runs in development mode with the declarative options: the cache file
\* at the default path (absent at first, or left by a previous run) or at a
\* configured path, where the consumer never finds it
InitLive ==
    /\ InitRun
    /\ isDev
    /\ options.liveUpdate = Undefined
    /\ options.pages = Arr(<<PostsDef, PagesDef>>)
    /\ options.cacheFilePath # Undefined => fs[DEFAULT_FILE_CACHE_PATH] = AbsentFile

\* the event loop runs a checkPathExists that was called or whose timer is
\* due, and completes a readJson that was started
SpecLive == InitLive /\ [][Next]_vars /\ WF_vars(CheckPathExists) /\ WF_vars(ReadJson)

----------------------------------------------------------------------------
(* Properties of the cache file protocol *)

Done == mode = "run" /\ client.pc \in {"resolved", "rejected"}

\* the file the producer removes and writes
ProducerFile == fs[CacheFilePath(options)]

\* what a read of the producer's file returns: the snapshot of the cycle that
\* wrote it last, as JSON
WrittenSnapshot ==
    [v |-> JsonOf(cycles[ProducerFile.cycle].snap), run |-> 1, cycle |-> ProducerFile.cycle]

NoWriteYet == \A k \in 1..Len(cycles) : cycles[k].pc \notin {"emit", "returned"}

\* C1: the token of a cycle is emitted only after the write of that cycle has
\* completed, and a getData() started once the token of the last cycle has been
\* received (no later cycle having started) returns the written snapshot.
C1_ReadAfterTokenReturnsSnapshot ==
    /\ \A k \in 1..Len(cycles) :
          TokenReceived(k) => cycles[k].pc = "returned"
    /\ (Done /\ client.sawToken /\ client.sawWritten = Len(cycles)) =>
          client.pc = "resolved" /\ client.result = WrittenSnapshot

\* C2: once bootstrap has completed, no snapshot file is readable by the
\* consumer until the first write completes, and a getData() started after
\* bootstrap returns a snapshot of the current run only, under every
\* configuration.
C2_NoSnapshotOfPreviousRun ==
    /\ (mode = "run" /\ bootPc = "done" /\ NoWriteYet) =>
          fs[ClientPath(options)].kind # "json"
    /\ (Done /\ client.afterBoot /\ client.pc = "resolved") => client.result.run = 1

\* C3: a getData() started after the write of the last cycle has completed
\* (no further cycle starting) returns exactly the snapshot that was written,
\* as JSON content; so does every later call.
C3_RoundTrip ==
    (Done /\ client.sawWritten > 0 /\ client.sawWritten = Len(cycles)) =>
        client.pc = "resolved" /\ client.result = WrittenSnapshot

\* C4: the path getData() polls and reads is the path bootstrap removes and
\* transform writes, whatever the cacheFilePath option is.
C4_ConsumerReadsProducerPath ==
    (mode = "run" /\ client.checks > 0) => client.path = CacheFilePath(options)

\* C5: a getData() that fails because the file is not found has found it
\* absent at every check: it has waited retryDelay after each absent check but
\* the last, made maxNumOfRetries (10) retries, 5000 ms of waiting in all, names
\* the path and the count 10 in its error, has never read the file and has no
\* timer left.
C5_NotFoundAfterTenRetries ==
    /\ (mode = "run" /\ client.pc = "check") =>
          /\ client.numOfRetries <= maxNumOfRetries
          /\ client.checks = client.numOfRetries
          /\ client.timer = (client.numOfRetries > 0)
          /\ client.slept = retryDelay * (client.numOfRetries - (IF client.timer THEN 1 ELSE 0))
          /\ client.reads = 0
    /\ (mode = "run" /\ client.pc = "rejected" /\ client.error = "not found") =>
          /\ client.numOfRetries = 10
          /\ client.checks = 11
          /\ client.slept = 5000
          /\ client.reads = 0
          /\ ~client.timer
          /\ client.errPath = client.path /\ client.errPath = DEFAULT_FILE_CACHE_PATH
          /\ client.errRetries = 10

\* the default path never holds a file: the call fails after its retries
C5_Witness ==
    /\ mode = "run"
    /\ client.pc = "rejected" /\ client.error = "not found"
    /\ client.checks = 11
    /\ fs[DEFAULT_FILE_CACHE_PATH].kind = "absent"

----------------------------------------------------------------------------
(* Properties of a transform cycle *)

\* the reduction of the records of cycle k
ReductionOf(k) ==
    reduceAndTransformData(RunData(k), [commonProps |-> options.commonProps,
                                        pages |-> options.pages])

\* transform has just been called
CalledNow == Len(cycles') = Len(cycles) + 1

\* transform has just been called and a caller-supplied function threw
ThrewNow == CalledNow /\ cycles'[Len(cycles')].pc = "threw"

\* C11: a transform cycle in which a caller-supplied predicate, commonProps
\* function or pages function throws (and no other cycle) ends at once with
\* that exception: the call leaves every cache file and every connection as
\* they were, the cycle takes no further step, no file content is ever
\* written by it and no token of it is ever sent.
C11_ThrowLeavesFileAndChannel ==
    /\ [][(mode = "run" /\ CalledNow) =>
            (cycles'[Len(cycles')].pc = "threw" <=> ~ReductionOf(Len(cycles')).ok)]_vars
    /\ [][(mode = "run" /\ ThrewNow) => (fs' = fs /\ conns' = conns)]_vars
    /\ [][mode = "run" =>
            \A k \in 1..Len(cycles) : cycles[k].pc = "threw" => cycles'[k].pc = "threw"]_vars
    /\ [](mode = "run" =>
            \A k \in 1..Len(cycles) :
               cycles[k].pc = "threw" =>
                   /\ ~TokenReceived(k)
                   /\ \A p \in Paths :
                         fs[p].kind = "json" => ~(fs[p].run = 1 /\ fs[p].cycle = k))

\* the first cycle has written its snapshot and sent its token, the predicate
\* of a prop throws on a record of the second cycle: the file still holds the
\* snapshot of the first cycle
C11_Witness ==
    /\ mode = "run"
    /\ Len(cycles) = 2
    /\ cycles[1].pc = "returned" /\ cycles[2].pc = "threw"
    /\ ProducerFile = JsonFile(JsonOf(cycles[1].snap), 1, 1)
    /\ conns[1].state = "open"
    /\ conns[1].inbox = <<Hello, Token(1)>>

\* C12: transform leaves the records it was given as they were: when an
\* invocation that did not throw has run its reduction and its live-update
\* augmentation, the records are the ones it was called with, whatever the
\* pages and commonProps options are.
C12_RecordsUnchanged ==
    mode = "run" =>
        \A k \in 1..Len(cycles) : cycles[k].pc # "threw" => cycles[k].records = RunData(k)

----------------------------------------------------------------------------
(* Properties of the live-update channel *)

Count(seq, x) == Cardinality({i \in 1..Len(seq) : seq[i] = x})

\* C8: a connection receives 'hello' first and then nothing but tokens, and
\* it has received the token of a cycle exactly once when the cycle has
\* returned with live-update enabled and the connection was open at its emit,
\* and not at all otherwise, whatever the other connections did.
C8_HelloThenOneTokenPerCycle ==
    mode = "run" =>
        \A c \in 1..MaxConns :
            /\ conns[c].state = "none" => conns[c].inbox = <<>>
            /\ conns[c].state # "none" =>
                  /\ conns[c].inbox[1] = Hello
                  /\ \A i \in 2..Len(conns[c].inbox) :
                        conns[c].inbox[i].msg = LIVE_UPDATE_EVENT_NAME
            /\ \A k \in 1..Len(cycles) :
                  Count(conns[c].inbox, Token(k)) =
                     IF /\ cycles[k].pc = "returned"
                        /\ LiveUpdate(options, isDev)
                        /\ c \in cycles[k].openAtEmit
                     THEN 1 ELSE 0

\* the first connection stays open through two cycles, the second one is
\* opened later and closed before the second cycle emits
C8_Witness ==
    /\ mode = "run"
    /\ conns[1].state = "open" /\ conns[2].state = "closed"
    /\ listeners = <<1, 2>>
    /\ conns[1].inbox = <<Hello, Token(1), Token(2)>>
    /\ conns[2].inbox = <<Hello, Token(1)>>
    /\ conns[2].deadSend

\* C13: the subscribers of the broadcast are exactly the connections that
\* are open: a connection that has closed is no longer subscribed, and no
\* broadcast has attempted a send on a connection after its close.
C13_SubscribersAreOpenConnections ==
    mode = "run" =>
        /\ {listeners[i] : i \in 1..Len(listeners)} =
              {c \in 1..MaxConns : conns[c].state = "open"}
        /\ \A c \in 1..MaxConns : ~conns[c].deadSend

----------------------------------------------------------------------------
(* Properties of overlapping cycles and reads *)

\* cycle k has opened the cache file for writing
WriteBegun(k) == cycles[k].pc \in {"writing", "emit", "returned"}

Completed(k) == cycles[k].pc \in {"returned", "threw"}

\* the last cycle that did not throw (0 when there is none)
LastWriter ==
    LET W == {k \in 1..Len(cycles) : cycles[k].pc # "threw"}
    IN IF W = {} THEN 0 ELSE CHOOSE k \in W : \A j \in W : j <= k

\* the content cycle k writes: its reduction with the live-update keys, as JSON
ExpectedContent(k) == JsonOf(WithLiveUpdate(ReductionOf(k).out, options, isDev))

\* C14: the cycles of a producer do not overlap on the cache file: when a
\* cycle has begun its write every earlier cycle has completed its write and
\* its broadcast, and when every cycle has completed the file holds the
\* snapshot of the cycle triggered last.
C14_CyclesDoNotOverlap ==
    mode = "run" =>
        /\ \A j, k \in 1..Len(cycles) : (j < k /\ WriteBegun(k)) => Completed(j)
        /\ ((\A k \in 1..Len(cycles) : Completed(k)) /\ LastWriter > 0) =>
              /\ ProducerFile.kind = "json"
              /\ ProducerFile.cycle = LastWriter
              /\ ProducerFile.v = ExpectedContent(LastWriter)

\* C15: a getData() that found the cache file present and read it (the file
\* was not removed in between) returns a complete snapshot: the read does not
\* fail with a parse error, and a snapshot of this run is the one a cycle
\* has completely written.
C15_PresentFileIsComplete ==
    (Done /\ client.reads > 0 /\ client.error # "ENOENT") =>
        /\ client.pc = "resolved"
        /\ client.result.run = 1 =>
              /\ cycles[client.result.cycle].pc \in {"emit", "returned"}
              /\ client.result.v = ExpectedContent(client.result.cycle)

\* C16: when a transform cycle completes, the content of the cache file is
\* exactly the reduction of the records of that cycle under the options, with
\* the live-update keys when enabled, as JSON: nothing of an earlier snapshot
\* is left.
C16_FileIsReductionOfCompletedCycle ==
    [][mode = "run" =>
          \A k \in 1..Len(cycles) :
              (cycles[k].pc = "emit" /\ cycles'[k].pc = "returned") =>
                  /\ fs'[CacheFilePath(options)].kind = "json"
                  /\ fs'[CacheFilePath(options)].v = ExpectedContent(k)]_vars

----------------------------------------------------------------------------
(* Properties of reducePages *)

Remove(seq, i) == SubSeq(seq, 1, i - 1) \o SubSeq(seq, i + 1, Len(seq))

ThrowsInProps(propsMap) ==
    CASE propsMap.t = "fn" ->
            \/ propsMap.throws
            \/ \E n \in DOMAIN propsMap.v : propsMap.v[n].predicate = Throws
      [] propsMap.t = "obj" ->
            \E n \in DOMAIN propsMap.v : propsMap.v[n].predicate = Throws
      [] OTHER -> FALSE

ThrowsInPages(pagesOption) ==
    \/ pagesOption.t = "fn" /\ pagesOption.throws
    \/ pagesOption.t = "arr" /\ \E d \in 1..Len(pagesOption.v) :
          \/ pagesOption.v[d].predicate = Throws
          \/ ThrowsInProps(pagesOption.v[d].props)

\* no caller-supplied function of the options throws
NoUserThrow == ~ThrowsInProps(options.commonProps) /\ ~ThrowsInPages(options.pages)

\* the (definition, record) pairs for which a path is interpolated: in
\* function mode the definition is the first branch the record meets
EntrySlots(pagesOption, data) ==
    CASE pagesOption.t = "arr" ->
            {<<d, i>> \in (1..Len(pagesOption.v)) \X (1..Len(data)) :
                Eval(pagesOption.v[d].predicate, data[i]) = "true"}
      [] pagesOption.t = "fn" ->
            {<<d, i>> \in (1..Len(pagesOption.v)) \X (1..Len(data)) :
                /\ Eval(pagesOption.v[d].predicate, data[i]) = "true"
                /\ \A e \in 1..(d - 1) : Eval(pagesOption.v[e].predicate, data[i]) # "true"}
      [] OTHER -> {}

SlotTemplate(pagesOption, d) ==
    IF pagesOption.t = "arr" THEN TemplateOf(pagesOption.v[d]) ELSE pagesOption.v[d].path

SlotResolves(pagesOption, data, slot) ==
    interpolatePagePath(SlotTemplate(pagesOption, slot[1]), data[slot[2]]).ok

\* record i yields no page entry: a path is interpolated for it, and every
\* interpolation meets an absent or falsy field
Offending(pagesOption, data, i) ==
    /\ \E slot \in EntrySlots(pagesOption, data) : slot[2] = i
    /\ \A slot \in EntrySlots(pagesOption, data) :
          slot[2] = i => ~SlotResolves(pagesOption, data, slot)

Reduced == mode = "reduce" /\ transformedData # NotRun

\* the slots whose path resolves, and the k-th of them in definition order,
\* then record order
ResolvedSlots(pagesOption, data) ==
    {slot \in EntrySlots(pagesOption, data) : SlotResolves(pagesOption, data, slot)}

SlotBefore(s, t) == s[1] < t[1] \/ (s[1] = t[1] /\ s[2] < t[2])

SlotAt(S, k) == CHOOSE s \in S : Cardinality({t \in S : SlotBefore(t, s)}) = k - 1

PagesOut == transformedData.out.v["pages"].v

\* C9 as stated: when a placeholder of a record's template resolves to an
\* absent or falsy value, no exception escapes and the page entries are the
\* ones produced when the offending record is not in the input.
C9_AsIfRecordAbsent ==
    (Reduced /\ NoUserThrow) =>
        /\ transformedData.ok
        /\ \A i \in 1..Len(objects) :
              Offending(options.pages, objects, i) =>
                  PagesOut = reducePages(options.pages, Remove(objects, i)).out.v

\* C9, amended: no exception escapes, there is exactly one page entry for each
\* (definition, record) pair whose path resolves, and the entries are, in the
\* same order, the ones produced when the offending record is not in the
\* input, with each entry's declarative props computed over the full record
\* set, the offending record included.
C9_OffendingRecordSkipped ==
    (Reduced /\ NoUserThrow) =>
        /\ transformedData.ok
        /\ Len(PagesOut) = Cardinality({slot \in EntrySlots(options.pages, objects) :
                                          SlotResolves(options.pages, objects, slot)})
        /\ \A i \in 1..Len(objects) :
              Offending(options.pages, objects, i) =>
                  LET others == reducePages(options.pages, Remove(objects, i)).out.v
                  IN /\ Len(PagesOut) = Len(others)
                     /\ options.pages.t = "fn" => PagesOut = others
                     /\ options.pages.t = "arr" =>
                           \A k \in 1..Len(others) :
                              \E d \in 1..Len(options.pages.v) :
                                 PagesOut[k] = Assign(others[k],
                                    reducePropsMap(options.pages.v[d].props, objects).out)

\* a post without slug between a post and a page that resolve: two entries
C9_Witness ==
    /\ Reduced /\ NoUserThrow /\ transformedData.ok
    /\ options.pages = Arr(<<PostsDef, PagesDef>>)
    /\ Len(objects) = 3
    /\ Offending(options.pages, objects, 2)
    /\ ~Offending(options.pages, objects, 1) /\ ~Offending(options.pages, objects, 3)
    /\ Len(PagesOut) = 2
    /\ PagesOut[1].v["page"] = objects[1] /\ PagesOut[2].v["page"] = objects[3]

----------------------------------------------------------------------------
(* Properties of getPropsFromCMSDataForPagePath *)

Looked == mode = "lookup" /\ staticProps # NotRun

SnapshotPages == cmsData.v["pages"].v
SnapshotProps == cmsData.v["props"].v

MatchingEntries == {i \in 1..Len(SnapshotPages) : SnapshotPages[i].v["path"] = Str(pagePath)}

\* C6: when no page entry has a path equal to the argument, the lookup
\* returns undefined, whatever the shared props are.
C6_UndefinedWhenNoMatch ==
    (Looked /\ MatchingEntries = {}) => staticProps = Undefined

\* C7: on a match the lookup returns the first page entry with that path, with
\* the shared props on top: every key of the shared props has the shared
\* value, every other key of the entry keeps the value of the entry.
C7_SharedPropsOverrideFirstMatch ==
    (Looked /\ MatchingEntries # {}) =>
        LET first == CHOOSE i \in MatchingEntries : \A j \in MatchingEntries : i <= j
            entry == SnapshotPages[first].v
        IN /\ staticProps.t = "obj"
           /\ DOMAIN staticProps.v = DOMAIN entry \cup DOMAIN SnapshotProps
           /\ \A k \in DOMAIN SnapshotProps : staticProps.v[k] = SnapshotProps[k]
           /\ \A k \in DOMAIN entry \ DOMAIN SnapshotProps : staticProps.v[k] = entry[k]

\* two entries at '/a' for different records, shared props that hold title and
\* path: the result has the record of the first entry and the shared values
C7_Witness ==
    /\ Looked
    /\ pagePath = <<"/", "a">>
    /\ Cardinality(MatchingEntries) = 2
    /\ SnapshotPages[1].v["page"] # SnapshotPages[2].v["page"]
    /\ "title" \in DOMAIN SnapshotPages[1].v
    /\ DOMAIN SnapshotProps = {"title", "path"}
    /\ staticProps.v["page"] = SnapshotPages[1].v["page"]
    /\ staticProps.v["title"] = Str(<<"B">>)
    /\ staticProps.v["path"] = Str(<<"/", "b">>)

----------------------------------------------------------------------------
(* Properties of interpolatePagePath *)

Braces == {"{", "}"}

HasBrace(s) == \E i \in 1..Len(s) : s[i] \in Braces

RECURSIVE ValueHasBrace(_)
ValueHasBrace(val) ==
    CASE val.t = "str" -> HasBrace(val.v)
      [] val.t = "obj" -> \E k \in DOMAIN val.v : ValueHasBrace(val.v[k])
      [] OTHER -> FALSE

\* every brace of the template belongs to a placeholder '{name}' whose name
\* is not empty and holds no brace
PlaceholdersOnly(s) ==
    \A i \in 1..Len(s) :
        /\ s[i] = "{" => \E j \in (i + 2)..Len(s) :
               s[j] = "}" /\ \A k \in (i + 1)..(j - 1) : s[k] \notin Braces
        /\ s[i] = "}" => \E j \in 1..(i - 2) :
               s[j] = "{" /\ \A k \in (j + 1)..(i - 1) : s[k] \notin Braces

\* t is v without its leading and trailing '/' characters
IsTrimOf(t, v) ==
    /\ \E i \in 1..(Len(v) + 1), j \in 0..Len(v) :
          /\ t = SubSeq(v, i, j)
          /\ \A k \in 1..(i - 1) : v[k] = "/"
          /\ \A k \in (j + 1)..Len(v) : v[k] = "/"
    /\ t # <<>> => t[1] # "/" /\ t[Len(t)] # "/"

WithLeadingSlash(s) == IF s # <<>> /\ s[1] = "/" THEN s ELSE <<"/">> \o s

\* the template is pre{name}post with a single placeholder
SinglePlaceholder(s, i, j) ==
    /\ s[i] = "{" /\ s[j] = "}" /\ j > i + 1
    /\ \A k \in 1..Len(s) : s[k] \in Braces => k \in {i, j}

Interpolated == mode = "interpolate" /\ urlPath # NotRun /\ urlPath.ok

\* C10 as stated: whenever every referenced field is truthy (the interpolation
\* returns), the path starts with '/' and holds no '{' or '}' character.
C10_NoBraceAtAll ==
    Interpolated => /\ urlPath.out[1] = "/"
                    /\ ~HasBrace(urlPath.out)

\* C10, amended: whenever every referenced field is truthy, the path starts
\* with '/'; it holds no '{' or '}' when the braces of the template all belong
\* to placeholders and no value of the record holds a brace; and a substituted
\* value appears without its leading and trailing '/' characters.
C10_PathStartsWithSlashAndResolved ==
    Interpolated =>
        /\ urlPath.out # <<>> /\ urlPath.out[1] = "/"
        /\ (PlaceholdersOnly(pathTemplate) /\ ~ValueHasBrace(page)) => ~HasBrace(urlPath.out)
        /\ \A i, j \in 1..Len(pathTemplate) :
              SinglePlaceholder(pathTemplate, i, j) =>
                  LET fieldValue == Get(page, SubSeq(pathTemplate, i + 1, j - 1))
                  IN \E a \in 1..(Len(urlPath.out) + 1), b \in 0..Len(urlPath.out) :
                        /\ IsTrimOf(SubSeq(urlPath.out, a, b), toString(fieldValue))
                        /\ urlPath.out = WithLeadingSlash(
                               SubSeq(pathTemplate, 1, i - 1)
                               \o SubSeq(urlPath.out, a, b)
                               \o SubSeq(pathTemplate, j + 1, Len(pathTemplate)))

\* '/{c.s}/{s}' on a record whose s is '/a' and whose c.s is 'a' gives '/a/a'
C10_Witness ==
    /\ Interpolated
    /\ pathTemplate = <<"/", "{", "c", ".", "s", "}", "/", "{", "s", "}">>
    /\ ValueHasBrace(page) = FALSE
    /\ Get(page, <<"s">>) = Str(<<"/", "a">>)
    /\ urlPath.out = <<"/", "a", "/", "a">>

----------------------------------------------------------------------------
(* Properties of the page entries of declarative mode *)

Declarative == Reduced /\ NoUserThrow /\ options.pages.t = "arr"

PropNames(pageTypeDef) == DOMAIN reducePropsMap(pageTypeDef.props, objects).out.v

\* C17: in declarative mode the k-th page entry has, for every props mapping
\* of its definition, prop names path and page included, the path
\* interpolated from the definition's template (default '/{slug}') and the
\* record as page; its other properties are the ones the props reducer
\* computes over the full record set.
C17_PathAndPageOfEntry ==
    Declarative =>
        LET S == ResolvedSlots(options.pages, objects)
        IN /\ Len(PagesOut) = Cardinality(S)
           /\ \A k \in 1..Len(PagesOut) :
                 LET slot == SlotAt(S, k)
                     def == options.pages.v[slot[1]]
                     props == reducePropsMap(def.props, objects).out.v
                 IN /\ PagesOut[k].v["path"] =
                          Str(interpolatePagePath(TemplateOf(def), objects[slot[2]]).out)
                    /\ PagesOut[k].v["page"] = objects[slot[2]]
                    /\ DOMAIN PagesOut[k].v = {"path", "page"} \cup DOMAIN props
                    /\ \A n \in DOMAIN props \ {"path", "page"} : PagesOut[k].v[n] = props[n]

\* C18: in declarative mode there is one page entry for each pair of a
\* definition and a record it matches (and whose path resolves), in definition
\* order, then input order, without deduplication: the k-th entry is the one
\* of the k-th pair, and getStaticPaths returns the path of the k-th entry at
\* position k.
C18_EntriesInDefinitionThenRecordOrder ==
    Declarative =>
        LET S == ResolvedSlots(options.pages, objects)
        IN /\ Len(PagesOut) = Cardinality(S)
           /\ \A k \in 1..Len(PagesOut) :
                 LET slot == SlotAt(S, k)
                     def == options.pages.v[slot[1]]
                 IN /\ "page" \notin PropNames(def) => PagesOut[k].v["page"] = objects[slot[2]]
                    /\ "path" \notin PropNames(def) =>
                          PagesOut[k].v["path"] =
                             Str(interpolatePagePath(TemplateOf(def), objects[slot[2]]).out)
           /\ staticPaths # NotRun =>
                 /\ Len(staticPaths.out) = Cardinality(S)
                 /\ \A k \in 1..Len(PagesOut) :
                       staticPaths.out[k] = JsonOf(PagesOut[k].v["path"])

\* two posts with the same slug and a page: each post is matched by both
\* definitions, so '/p/a' comes twice, then '/a' three times
C18_Witness ==
    /\ Declarative
    /\ options.pages = Arr(<<PostsDef, OverlapDef>>)
    /\ Len(objects) = 3
    /\ objects[1] = objects[3] /\ objects[1] # objects[2]
    /\ staticPaths # NotRun
    /\ staticPaths.out = << Str(<<"/", "p", "/", "a">>), Str(<<"/", "p", "/", "a">>),
                            Str(<<"/", "a">>), Str(<<"/", "a">>), Str(<<"/", "a">>) >>
    /\ PagesOut[3].v["page"] = objects[1] /\ PagesOut[4].v["page"] = objects[2]

----------------------------------------------------------------------------
(* Termination of getData *)

Polling == mode = "run" /\ client.pc = "check"

\* C19: every getData() call terminates, whatever the producer does: it makes
\* at most maxNumOfRetries + 1 existence checks, its polling stops only when a
\* check finds the file (the call goes on to read it) or when the file is
\* absent with the retry budget used up (the call rejects), no timer is left
\* once it has resolved or rejected, and no call polls or reads for ever: it
\* resolves or rejects eventually.
C19_GetDataTerminates ==
    /\ [](mode = "run" =>
            /\ client.checks <= maxNumOfRetries + 1
            /\ Done => ~client.timer)
    /\ [][(Polling /\ client'.pc # "check") =>
            \/ client'.pc = "read" /\ PathExists(fs, client'.path)
            \/ /\ client'.pc = "rejected" /\ client'.error = "not found"
               /\ ~PathExists(fs, client'.path)
               /\ client.numOfRetries = maxNumOfRetries]_vars
    /\ []<>(mode = "run" /\ client.pc \notin {"check", "read"})

\* the file appears while the call polls: it has waited at least once and
\* returns a snapshot of this run
C19_Witness ==
    /\ Done /\ client.pc = "resolved"
    /\ client.numOfRetries > 0 /\ client.slept = retryDelay * client.numOfRetries
    /\ client.checks = client.numOfRetries + 1
    /\ client.result.run = 1
    /\ ~client.timer

====
